---- MODULE Spec2Model ----
(***************************************************************************)
(* A model of app.py: the rule-based question matcher answer_question, the *)
(* /assistant handler that wraps it, and the PIN-gated /results handler    *)
(* over the in-memory table RESULTS_BY_PIN.                                *)
(*                                                                         *)
(* Python strings are TLA+ strings; TLC evaluates Len, SubSeq and \o on    *)
(* them character by character, so lower(), strip(), the `in` substring    *)
(* test and the f-string of the handlers are computed, not assumed.        *)
(* A Python dict is a function whose DOMAIN is its key set.  The answer    *)
(* texts are the literals of the source, with the en dash of "1-4",        *)
(* "1-3", ... written as an ASCII hyphen.                                  *)
(***************************************************************************)
EXTENDS Integers, Sequences, FiniteSets, TLC

VARIABLES
    RESULTS_BY_PIN,  \* the module-level record table
    alias_map,       \* the alias dict results_lookup builds on each call
    op,              \* the operation called
    request,         \* its input: a question, or the JSON body of the request
    status,          \* the HTTP status of its response (0: a plain call)
    body,            \* the returned string, or the JSON body of the response
    pc,              \* "pending": the call is to be served; "done": it returned
    calls,           \* history: the number of calls served so far
    memo             \* history: one served call of the run and what it returned

vars == <<RESULTS_BY_PIN, alias_map, op, request, status, body, pc, calls, memo>>

(***************************************************************************)
(* Bounds of the input space.                                              *)
(***************************************************************************)
\* A question is the concatenation of at most MaxWords phrases of Phrases.
MaxWords == 2
\* A PIN or subject is padded on each side with at most MaxPad blanks.
MaxPad == 1
\* A run of SpecRuns serves at most MaxCalls calls.
MaxCalls == 3

(***************************************************************************)
(* str.lower(), str.strip() and the substring test.                        *)
(***************************************************************************)
UpperCase == "ABCDEFGHIJKLMNOPQRSTUVWXYZ"
LowerCase == "abcdefghijklmnopqrstuvwxyz"

\* The small letter of each ASCII capital.
ToLower ==
    [c \in {SubSeq(UpperCase, i, i) : i \in 1..Len(UpperCase)} |->
        LET i == CHOOSE j \in 1..Len(UpperCase) : SubSeq(UpperCase, j, j) = c
        IN  SubSeq(LowerCase, i, i)]

\* c.lower() for one character: ASCII capitals map to their small letter,
\* every other character of the modelled alphabet is left alone.
LowerChar(c) == IF c \in DOMAIN ToLower THEN ToLower[c] ELSE c

RECURSIVE Lower(_)
Lower(s) ==
    IF Len(s) = 0 THEN ""
    ELSE LowerChar(SubSeq(s, 1, 1)) \o Lower(SubSeq(s, 2, Len(s)))

\* The characters str.strip() removes (the ASCII ones).
Whitespace == {" ", "\t", "\n", "\r", "\f"}

RECURSIVE LStrip(_)
LStrip(s) ==
    IF Len(s) > 0 /\ SubSeq(s, 1, 1) \in Whitespace
    THEN LStrip(SubSeq(s, 2, Len(s)))
    ELSE s

RECURSIVE RStrip(_)
RStrip(s) ==
    IF Len(s) > 0 /\ SubSeq(s, Len(s), Len(s)) \in Whitespace
    THEN RStrip(SubSeq(s, 1, Len(s) - 1))
    ELSE s

Strip(s) == RStrip(LStrip(s))

\* word in q
In(word, q) ==
    \E i \in 1..(Len(q) - Len(word) + 1) : SubSeq(q, i, i + Len(word) - 1) = word

\* any(word in q for word in words)  /  "a" in q or "b" in q or ...
AnyWord(words, q) == \E i \in 1..Len(words) : In(words[i], q)

\* d.get(key) or ""
GetOrEmpty(d, key) == IF key \in DOMAIN d THEN d[key] ELSE ""

(***************************************************************************)
(* answer_question: the keyword lists of the cascade, in source order.     *)
(***************************************************************************)
LocationWords == <<"address", "location", "where are you", "where is the school">>
ContactWords == <<"contact", "phone", "call", "email">>
AboutWords ==
    <<"about", "tell me about", "what is nim", "what is nims", "new ideal model schools">>
AdmissionWords == <<"admission", "enrol", "enroll", "apply">>
EyfsWords == <<"early years", "eyfs">>
KeyStage1Words == <<"key stage 1", "ks1", "key stage one">>
KeyStage2Words == <<"key stage 2", "ks2", "key stage two">>
KeyStage3Words == <<"key stage 3", "ks3", "key stage three">>
KeyStage4Words == <<"key stage 4", "ks4", "key stage four">>
ClassWords == <<"class", "classes", "grades", "sections">>
ExtracurricularWords ==
    <<"extracurricular", "extra-curricular", "activities", "club", "sport">>
PrincipalWords == <<"principal", "head of school", "head of schools">>
VpAcademicWords == <<"vice principal academic", "vp academic", "ifeoma">>
VpSpecialWords == <<"vice principal", "special duties", "david kennedy">>
ArtTeacherWords == <<"art teacher", "baajon", "cyracus">>
IctWords == <<"e-librarian", "ict staff", "samuel oguche">>
AlumniWords == <<"alumni", "testimonials", "what do students say">>
FeesWords ==
    <<"fees", "school fees", "tuition", "scholarship", "bus", "transport",
      "boarding", "hostel">>

LocationAnswer ==
    "New Ideal Model Schools (NIMS) is located at No. 12 Old Pantisawa Road, "
    \o "Jalingo, Taraba State, Nigeria."
ContactAnswer ==
    "You can contact New Ideal Model Schools at +234 803 426 1645 or "
    \o "by email at info@nimschools.org. The school is at No. 12 Old Pantisawa "
    \o "Road, Jalingo, Taraba State."
AboutAnswer ==
    "New Ideal Model Schools (NIMS) in Jalingo, Taraba State, focuses on "
    \o "developing lifelong learning through quality education. The school "
    \o "provides a vibrant learning environment with modern classrooms, "
    \o "state-of-the-art facilities, and engaged students, and encourages "
    \o "holistic development through academics and extracurricular activities."
AdmissionAnswer ==
    "Admissions for the 2025 academic year are open. The website links to "
    \o "an admissions page where you can apply. If you need help with the "
    \o "process, you can also call +234 803 426 1645 or email info@nimschools.org "
    \o "for guidance on requirements, fees, and timelines."
EyfsAnswer ==
    "Early Years Foundation Stage (EYFS) at NIMS includes classes like "
    \o "Playgroup Lily, Pre-Nursery Jasmine, Pre-Nursery Tulip, Nursery Daisy, "
    \o "Nursery Ivy, and Reception classes such as Sage and Rose."
KeyStage1Answer ==
    "Key Stage 1 at NIMS includes Year 1 Cheetah, Year 2 Dolphin, Year 2 Orca, "
    \o "and Year 3 Bear classes."
KeyStage2Answer ==
    "Key Stage 2 at NIMS includes Year 4 Blue Jays, Year 5 Barn Owls, and "
    \o "Year 6 Zebra."
KeyStage3Answer ==
    "Key Stage 3 at NIMS includes Year 7 Amber, Year 8 Ruby, and Year 9 Beryl."
KeyStage4Answer ==
    "Key Stage 4 at NIMS includes Year 10 Jasper, Year 11 Onyx, and Year 12 Topaz."
ClassAnswer ==
    "NIMS runs from Early Years Foundation Stage (EYFS) through Key Stages 1-4. "
    \o "EYFS covers playgroup and nursery up to reception; Key Stage 1 covers Years 1-3; "
    \o "Key Stage 2 covers Years 4-6; Key Stage 3 covers Years 7-9; and Key Stage 4 "
    \o "covers Years 10-12."
ExtracurricularAnswer ==
    "NIMS encourages holistic development through extracurricular activities, "
    \o "including an art gallery, architectural design projects, and other clubs "
    \o "and activities that support students' creativity and talents."
PrincipalAnswer ==
    "The Principal and Head of Schools at NIMS is Mr. Adebanjo Oluwafemi. "
    \o "He has extensive experience in education and school leadership across "
    \o "international schools in Nigeria."
VpAcademicAnswer ==
    "The Vice Principal Academic at NIMS is Mrs. Ifeoma Victoria Onwuka. "
    \o "She supports curriculum development and teacher effectiveness to ensure "
    \o "strong academic outcomes."
VpSpecialAnswer ==
    "The Vice Principal Special Duties at NIMS is Mr. David Kennedy. He helps "
    \o "oversee daily operations and resources to maintain a safe and organized "
    \o "learning environment."
ArtTeacherAnswer ==
    "The Art Teacher at NIMS is Mr. Baajon Cyracus Michael. He develops and "
    \o "delivers engaging art lessons, helping students explore drawing, painting, "
    \o "sculpture, and art appreciation."
IctAnswer ==
    "Samuel Oguche serves as ICT staff and E-Librarian at NIMS, supporting "
    \o "students' access to digital learning resources."
AlumniAnswer ==
    "Alumni of NIMS describe it as the best school and say it has positively "
    \o "impacted them and their generation. They highlight how studying at NIMS "
    \o "helped them understand what education is really about and made them more "
    \o "brilliant and competitive."
FeesAnswer ==
    "Details like fees, transport, and boarding are not clearly listed in the "
    \o "public content I can see. Please contact the school directly at "
    \o "+234 803 426 1645 or info@nimschools.org for the latest information."
FallbackAnswer ==
    "I'm a NimSchools helper bot with information taken from the public website. "
    \o "I couldn't find an exact answer to that question. You can:\n"
    \o "- Ask about academics (EYFS, Key Stages 1-4, extracurricular activities).\n"
    \o "- Ask about the principal, vice principals, or staff.\n"
    \o "- Ask for contact details or the school location.\n\n"
    \o "For anything else (like fees or detailed admission requirements), it's best to "
    \o "call +234 803 426 1645 or email info@nimschools.org."

\* The if-cascade of answer_question over the lowercased question q.
Cascade(q) ==
    IF AnyWord(LocationWords, q) THEN LocationAnswer
    ELSE IF AnyWord(ContactWords, q) THEN ContactAnswer
    ELSE IF AnyWord(AboutWords, q) THEN AboutAnswer
    ELSE IF AnyWord(AdmissionWords, q) THEN AdmissionAnswer
    ELSE IF AnyWord(EyfsWords, q) THEN EyfsAnswer
    ELSE IF AnyWord(KeyStage1Words, q) THEN KeyStage1Answer
    ELSE IF AnyWord(KeyStage2Words, q) THEN KeyStage2Answer
    ELSE IF AnyWord(KeyStage3Words, q) THEN KeyStage3Answer
    ELSE IF AnyWord(KeyStage4Words, q) THEN KeyStage4Answer
    ELSE IF AnyWord(ClassWords, q) THEN ClassAnswer
    ELSE IF AnyWord(ExtracurricularWords, q) THEN ExtracurricularAnswer
    ELSE IF AnyWord(PrincipalWords, q) THEN PrincipalAnswer
    ELSE IF AnyWord(VpAcademicWords, q) THEN VpAcademicAnswer
    ELSE IF AnyWord(VpSpecialWords, q) THEN VpSpecialAnswer
    ELSE IF AnyWord(ArtTeacherWords, q) THEN ArtTeacherAnswer
    ELSE IF AnyWord(IctWords, q) THEN IctAnswer
    ELSE IF AnyWord(AlumniWords, q) THEN AlumniAnswer
    ELSE IF AnyWord(FeesWords, q) THEN FeesAnswer
    ELSE FallbackAnswer

\* Mutant: the contact test hoisted above the location test.
answer_question_contact_first(question) ==
    LET q == Lower(question)
    IN  IF AnyWord(ContactWords, q) THEN ContactAnswer ELSE Cascade(q)

\* Mutant: a blank question is answered with the empty string.
answer_question_blank_empty(question) ==
    IF Strip(question) = "" THEN "" ELSE Cascade(Lower(question))

\* answer_question(question): q = question.lower(), then the cascade.
answer_question(question) == Cascade(Lower(question))

(***************************************************************************)
(* /assistant                                                              *)
(***************************************************************************)
\* Python's None, which jsonify writes as the JSON null.
None == [none |-> TRUE]

\* (status, JSON body) of a Flask response; jsonify alone is a 200.
Response(code, json) == [status |-> code, body |-> json]

\* a or b, for strings: the first operand unless it is empty.
OrElse(a, b) == IF a # "" THEN a ELSE b

MissingQuestionBody ==
    [answer |-> None, error |-> "Missing 'question' in request body."]

assistant(data) ==
    LET question ==
            Strip(OrElse(GetOrEmpty(data, "question"), GetOrEmpty(data, "query")))
    IN  IF question = ""
        THEN Response(400, MissingQuestionBody)
        ELSE Response(200, [answer |-> answer_question(question)])

(***************************************************************************)
(* /results                                                                *)
(***************************************************************************)
InitialResults ==
    ("1234" :>
        [student_name |-> "Aisha Ibrahim",
         class |-> "Year 6 Zebra",
         session |-> "2024/2025",
         term |-> "Second Term",
         subjects |->
            ("mathematics" :> [score |-> 88, grade |-> "A"])
            @@ ("english" :> [score |-> 82, grade |-> "A-"])
            @@ ("science" :> [score |-> 79, grade |-> "B+"])
            @@ ("social studies" :> [score |-> 85, grade |-> "A"])])
    @@
    ("5678" :>
        [student_name |-> "David Okafor",
         class |-> "Year 9 Beryl",
         session |-> "2024/2025",
         term |-> "Second Term",
         subjects |->
            ("mathematics" :> [score |-> 72, grade |-> "B"])
            @@ ("english" :> [score |-> 90, grade |-> "A+"])
            @@ ("physics" :> [score |-> 76, grade |-> "B+"])
            @@ ("chemistry" :> [score |-> 69, grade |-> "C+"])])

AliasMapLiteral ==
    ("math" :> "mathematics")
    @@ ("maths" :> "mathematics")
    @@ ("english language" :> "english")

\* d.get(key, default)
DictGet(d, key, default) == IF key \in DOMAIN d THEN d[key] ELSE default

\* `not d` for the result of d.get(key): None, or a dict with no key.
Falsy(d) == d = None \/ DOMAIN d = {}

MissingPinBody == [error |-> "Missing 'pin' in request body."]

InvalidPinBody == [error |-> "Invalid PIN. Please check and try again."]

SubjectNotFoundBody(subject_raw) ==
    [error |->
        "No recorded result for subject '" \o subject_raw \o "' for this student."]

AllSubjectsBody(record) ==
    [student_name |-> record["student_name"],
     class |-> record["class"],
     session |-> record["session"],
     term |-> record["term"],
     subjects |-> record["subjects"]]

SingleSubjectBody(record, subject_key, subject_result) ==
    [student_name |-> record["student_name"],
     class |-> record["class"],
     session |-> record["session"],
     term |-> record["term"],
     subject |-> subject_key,
     score |-> subject_result["score"],
     grade |-> subject_result["grade"]]

\* Mutant: the alias table is not consulted.
LookupSubject_no_alias(record, subject_raw, aliases) ==
    LET subjects == record["subjects"]
    IN  IF subject_raw = ""
        THEN Response(200, AllSubjectsBody(record))
        ELSE LET subject_result == DictGet(subjects, subject_raw, None)
             IN  IF Falsy(subject_result)
                 THEN Response(404, SubjectNotFoundBody(subject_raw))
                 ELSE Response(200,
                               SingleSubjectBody(record, subject_raw, subject_result))

\* results_lookup once the PIN has found its record.
LookupSubject(record, subject_raw, aliases) ==
    LET subjects == record["subjects"]
    IN  IF subject_raw = ""
        THEN Response(200, AllSubjectsBody(record))
        ELSE LET subject_key == DictGet(aliases, subject_raw, subject_raw)
                 subject_result == DictGet(subjects, subject_key, None)
             IN  IF Falsy(subject_result)
                 THEN Response(404, SubjectNotFoundBody(subject_raw))
                 ELSE Response(200,
                               SingleSubjectBody(record, subject_key, subject_result))

\* Mutant: no missing-PIN check, an empty PIN is looked up like any other.
results_lookup_no_missing_check(table, aliases, data) ==
    LET pin == Strip(GetOrEmpty(data, "pin"))
        subject_raw == Lower(Strip(GetOrEmpty(data, "subject")))
        record == DictGet(table, pin, None)
    IN  IF Falsy(record)
        THEN Response(403, InvalidPinBody)
        ELSE LookupSubject(record, subject_raw, aliases)

\* Mutant: a subject no student has is reported before the PIN is looked up.
results_lookup_subject_first(table, aliases, data) ==
    LET pin == Strip(GetOrEmpty(data, "pin"))
        subject_raw == Lower(Strip(GetOrEmpty(data, "subject")))
        subject_key == DictGet(aliases, subject_raw, subject_raw)
        record == DictGet(table, pin, None)
    IN  IF pin = ""
        THEN Response(400, MissingPinBody)
        ELSE IF /\ subject_raw # ""
                /\ \A p \in DOMAIN table : subject_key \notin DOMAIN table[p]["subjects"]
        THEN Response(404, SubjectNotFoundBody(subject_raw))
        ELSE IF Falsy(record)
        THEN Response(403, InvalidPinBody)
        ELSE LookupSubject(record, subject_raw, aliases)

\* Mutant: the subject is trimmed but not lowercased.
results_lookup_no_lower(table, aliases, data) ==
    LET pin == Strip(GetOrEmpty(data, "pin"))
        subject_raw == Strip(GetOrEmpty(data, "subject"))
        record == DictGet(table, pin, None)
    IN  IF pin = ""
        THEN Response(400, MissingPinBody)
        ELSE IF Falsy(record)
        THEN Response(403, InvalidPinBody)
        ELSE LookupSubject(record, subject_raw, aliases)

\* Mutant: the InvalidPin message quotes the PIN it rejects.
results_lookup_echo_pin(table, aliases, data) ==
    LET pin == Strip(GetOrEmpty(data, "pin"))
        subject_raw == Lower(Strip(GetOrEmpty(data, "subject")))
        record == DictGet(table, pin, None)
    IN  IF pin = ""
        THEN Response(400, MissingPinBody)
        ELSE IF Falsy(record)
        THEN Response(403, [error |-> "Invalid PIN '" \o pin \o "'. Please check and try again."])
        ELSE LookupSubject(record, subject_raw, aliases)

\* Mutant: the subject is lowercased but not trimmed.
results_lookup_no_subject_strip(table, aliases, data) ==
    LET pin == Strip(GetOrEmpty(data, "pin"))
        subject_raw == Lower(GetOrEmpty(data, "subject"))
        record == DictGet(table, pin, None)
    IN  IF pin = ""
        THEN Response(400, MissingPinBody)
        ELSE IF Falsy(record)
        THEN Response(403, InvalidPinBody)
        ELSE LookupSubject(record, subject_raw, aliases)

results_lookup(table, aliases, data) ==
    LET pin == Strip(GetOrEmpty(data, "pin"))
        subject_raw == Lower(Strip(GetOrEmpty(data, "subject")))
        record == DictGet(table, pin, None)
    IN  IF pin = ""
        THEN Response(400, MissingPinBody)
        ELSE IF Falsy(record)
        THEN Response(403, InvalidPinBody)
        ELSE LookupSubject(record, subject_raw, aliases)

(***************************************************************************)
(* The inputs.                                                             *)
(***************************************************************************)
Phrases ==
    <<" ", "Who is the ", "ADDRESS", "location", "phone", "About", "Enroll",
      "eyfs", "key stage ", "1", "ks2", "KS3", "key stage four", "classes",
      "transport", "Vice Principal", " Academic", "ifeoma", "special duties",
      "art teacher", "E-Librarian", "alumni", "school fees">>

RECURSIVE Sentences(_)
Sentences(n) ==
    IF n = 0 THEN {""}
    ELSE LET shorter == Sentences(n - 1)
         IN  shorter \cup {s \o Phrases[i] : s \in shorter, i \in 1..Len(Phrases)}

Questions == Sentences(MaxWords)

RECURSIVE Blanks(_)
Blanks(n) == IF n = 0 THEN "" ELSE " " \o Blanks(n - 1)

Pads == {Blanks(n) : n \in 0..MaxPad} \cup {"\t"}

Padded(cores) == {l \o c \o r : l \in Pads, c \in cores, r \in Pads}

PinTexts == {"", "1234", "5678", "9999", "123", "Invalid"}

SubjectTexts ==
    {"", "math", "MATH", "Maths", "english language", "English",
     "social studies", "physics", "biology", "Biology", "1234"}

ResultsBodies ==
    {d \in [{"pin", "subject"} -> Padded(PinTexts) \cup Padded(SubjectTexts)] :
        d["pin"] \in Padded(PinTexts) /\ d["subject"] \in Padded(SubjectTexts)}
    \cup {("pin" :> p) : p \in Padded(PinTexts)}
    \cup {("subject" :> s) : s \in Padded(SubjectTexts)}
    \cup {<<>>}

QueryTexts == {"", " ", "Where are you?", "bus"}

AssistantBodies ==
    {("question" :> q) : q \in Padded(Sentences(1))}
    \cup {("query" :> q) : q \in QueryTexts}
    \cup {("question" :> q) @@ ("query" :> r) :
            q \in {"", " ", "eyfs"}, r \in QueryTexts}
    \cup {<<>>}

\* The smaller inputs of the runs that remember an earlier call.
RunQuestions == {"", "ADDRESS", "Vice Principal Academic", "hello"}

RunAssistantBodies == {<<>>, ("question" :> "eyfs"), ("query" :> "bus")}

RunResultsBodies ==
    {("pin" :> p) @@ ("subject" :> s) :
        p \in {"1234", " 5678", "9999"},
        s \in {"", "math", "Biology", "physics"}}
    \cup {<<>>, ("pin" :> "1234")}

(***************************************************************************)
(* The state machine.  A call arrives (pending) and is served (done).      *)
(* Under Spec every behaviour serves one call, drawn from the full input   *)
(* sets; under SpecRuns calls follow one another in any order, over the    *)
(* smaller input sets, and memo keeps one earlier call and its result.     *)
(***************************************************************************)
Call(name, input) == [op |-> name, request |-> input]

Calls ==
    {Call("answer_question", q) : q \in Questions}
    \cup {Call("assistant", d) : d \in AssistantBodies}
    \cup {Call("results_lookup", d) : d \in ResultsBodies}

RunCalls ==
    {Call("answer_question", q) : q \in RunQuestions}
    \cup {Call("assistant", d) : d \in RunAssistantBodies}
    \cup {Call("results_lookup", d) : d \in RunResultsBodies}

NoCall == [op |-> "none"]

InitWith(arriving) ==
    /\ RESULTS_BY_PIN = InitialResults
    /\ alias_map = AliasMapLiteral
    /\ \E c \in arriving : op = c.op /\ request = c.request
    /\ pc = "pending"
    /\ status = 0
    /\ body = ""
    /\ calls = 0
    /\ memo = NoCall

Init == InitWith(Calls)

InitRuns == InitWith(RunCalls)

\* The history variable may take the call being served and its result.
Remember ==
    /\ calls' = calls + 1
    /\ memo' \in {memo,
                  [op |-> op, request |-> request, status |-> status',
                   body |-> body', at |-> calls']}

\* A direct call answer_question(question).
AnswerQuestion ==
    /\ pc = "pending"
    /\ op = "answer_question"
    /\ status' = 0
    /\ body' = answer_question(request)
    /\ pc' = "done"
    /\ Remember
    /\ UNCHANGED <<RESULTS_BY_PIN, alias_map, op, request>>

\* POST /assistant
Assistant ==
    /\ pc = "pending"
    /\ op = "assistant"
    /\ LET r == assistant(request)
       IN  status' = r.status /\ body' = r.body
    /\ pc' = "done"
    /\ Remember
    /\ UNCHANGED <<RESULTS_BY_PIN, alias_map, op, request>>

\* Mutant: the subject's entry is popped from the record instead of read.
ResultsLookupPop ==
    /\ pc = "pending"
    /\ op = "results_lookup"
    /\ alias_map' = AliasMapLiteral
    /\ LET r == results_lookup(RESULTS_BY_PIN, alias_map', request)
           pin == Strip(GetOrEmpty(request, "pin"))
       IN  /\ status' = r.status
           /\ body' = r.body
           /\ RESULTS_BY_PIN' =
                IF "subject" \in DOMAIN r.body
                THEN [RESULTS_BY_PIN EXCEPT ![pin]["subjects"] =
                        [k \in DOMAIN @ \ {r.body["subject"]} |-> @[k]]]
                ELSE RESULTS_BY_PIN
    /\ pc' = "done"
    /\ Remember
    /\ UNCHANGED <<op, request>>

\* POST /results
ResultsLookup ==
    /\ pc = "pending"
    /\ op = "results_lookup"
    /\ alias_map' = AliasMapLiteral
    /\ LET r == results_lookup(RESULTS_BY_PIN, alias_map', request)
       IN  status' = r.status /\ body' = r.body
    /\ pc' = "done"
    /\ Remember
    /\ UNCHANGED <<RESULTS_BY_PIN, op, request>>

Next ==
    \/ AnswerQuestion
    \/ Assistant
    \/ ResultsLookup

Spec == Init /\ [][Next]_vars

\* The next call of the run arrives.
NextCall ==
    /\ pc = "done"
    /\ calls < MaxCalls
    /\ \E c \in RunCalls : op' = c.op /\ request' = c.request
    /\ pc' = "pending"
    /\ UNCHANGED <<RESULTS_BY_PIN, alias_map, status, body, calls, memo>>

NextRuns ==
    \/ AnswerQuestion
    \/ Assistant
    \/ ResultsLookup
    \/ NextCall

SpecRuns == InitRuns /\ [][NextRuns]_vars

(***************************************************************************)
(* The vocabulary of the claims.                                           *)
(***************************************************************************)
\* `name` was called and has returned.
Served(name) == pc = "done" /\ op = name

\* The PIN and subject texts as the caller supplied them ("" when missing).
SuppliedPin == GetOrEmpty(request, "pin")
SuppliedSubject == GetOrEmpty(request, "subject")

\* The rule groups in the order the specification lists them.
RuleOrder ==
    <<[group |-> "location", words |-> LocationWords, answer |-> LocationAnswer],
      [group |-> "contact", words |-> ContactWords, answer |-> ContactAnswer],
      [group |-> "about", words |-> AboutWords, answer |-> AboutAnswer],
      [group |-> "admissions", words |-> AdmissionWords, answer |-> AdmissionAnswer],
      [group |-> "eyfs", words |-> EyfsWords, answer |-> EyfsAnswer],
      [group |-> "key stage 1", words |-> KeyStage1Words, answer |-> KeyStage1Answer],
      [group |-> "key stage 2", words |-> KeyStage2Words, answer |-> KeyStage2Answer],
      [group |-> "key stage 3", words |-> KeyStage3Words, answer |-> KeyStage3Answer],
      [group |-> "key stage 4", words |-> KeyStage4Words, answer |-> KeyStage4Answer],
      [group |-> "classes", words |-> ClassWords, answer |-> ClassAnswer],
      [group |-> "extracurricular", words |-> ExtracurricularWords,
       answer |-> ExtracurricularAnswer],
      [group |-> "principal", words |-> PrincipalWords, answer |-> PrincipalAnswer],
      [group |-> "vice principal academic", words |-> VpAcademicWords,
       answer |-> VpAcademicAnswer],
      [group |-> "vice principal special duties", words |-> VpSpecialWords,
       answer |-> VpSpecialAnswer],
      [group |-> "art teacher", words |-> ArtTeacherWords, answer |-> ArtTeacherAnswer],
      [group |-> "ict librarian", words |-> IctWords, answer |-> IctAnswer],
      [group |-> "alumni", words |-> AlumniWords, answer |-> AlumniAnswer],
      [group |-> "fees", words |-> FeesWords, answer |-> FeesAnswer]>>

\* The groups with a keyword in the lowercased question.
Matching(question) ==
    LET q == Lower(question)
    IN  {g \in 1..Len(RuleOrder) : AnyWord(RuleOrder[g].words, q)}

\* The groups that precede the staff groups: location ... extracurricular.
BeforeStaff == {g \in 1..Len(RuleOrder) : \A h \in 1..g : RuleOrder[h].group # "principal"}

Earliest(groups) == CHOOSE g \in groups : \A h \in groups : g <= h

MissingPinMessage == "Missing 'pin' in request body."
InvalidPinMessage == "Invalid PIN. Please check and try again."
SubjectNotFoundMessage(text) ==
    "No recorded result for subject '" \o text \o "' for this student."

\* The canonical key of a trimmed, lowercased subject, as the claims give it.
CanonicalKey(text) ==
    IF text \in {"math", "maths"} THEN "mathematics"
    ELSE IF text = "english language" THEN "english"
    ELSE text

(***************************************************************************)
(* C1.  A question that contains "vice principal academic" and matches no  *)
(* group before the staff groups gets the Vice Principal Academic answer.  *)
(* The code tests "principal" first, and "principal" is a substring of     *)
(* "vice principal academic": the statement is violated.                   *)
(***************************************************************************)
C1_VicePrincipalAcademicAnswered ==
    ( /\ Served("answer_question")
      /\ In("vice principal academic", Lower(request))
      /\ Matching(request) \cap BeforeStaff = {} )
    => body = VpAcademicAnswer

(***************************************************************************)
(* C2, as claimed.  Every PIN that is not a key of the record table, the   *)
(* empty and the whitespace-only PIN included, gets the one InvalidPin     *)
(* outcome.                                                                *)
(***************************************************************************)
C2_AnyAbsentPinInvalid ==
    (Served("results_lookup") /\ SuppliedPin \notin DOMAIN RESULTS_BY_PIN)
    => (status = 403 /\ body = [error |-> InvalidPinMessage])

(***************************************************************************)
(* C2, amended.  Every PIN whose trimmed text is non-empty and is not a    *)
(* key of the table gets the one InvalidPin outcome (403, one message),    *)
(* whatever the PIN and the subject; a PIN that is missing, empty or       *)
(* whitespace-only gets the distinct missing-PIN outcome (400).            *)
(***************************************************************************)
C2_TrimmedAbsentPinInvalid ==
    Served("results_lookup") =>
        LET pin == Strip(SuppliedPin)
        IN  /\ (pin # "" /\ pin \notin DOMAIN RESULTS_BY_PIN)
                => (status = 403 /\ body = [error |-> InvalidPinMessage])
            /\ pin = ""
                => (status = 400 /\ body = [error |-> MissingPinMessage])

C2_Witness ==
    /\ Served("results_lookup")
    /\ SuppliedPin = "123"
    /\ status = 403

(***************************************************************************)
(* C3, as claimed.  For a valid PIN and a non-blank subject the student    *)
(* has no record of, the SubjectNotFound message contains the subject      *)
(* text exactly as supplied.                                               *)
(***************************************************************************)
C3_EchoesSuppliedSubject ==
    ( /\ Served("results_lookup")
      /\ Strip(SuppliedPin) \in DOMAIN RESULTS_BY_PIN
      /\ Strip(SuppliedSubject) # ""
      /\ CanonicalKey(Lower(Strip(SuppliedSubject)))
            \notin DOMAIN RESULTS_BY_PIN[Strip(SuppliedPin)]["subjects"] )
    => (status = 404 /\ In(SuppliedSubject, body["error"]))

(***************************************************************************)
(* C3, amended.  In that case the response is SubjectNotFound and its      *)
(* message quotes the subject text trimmed and lowercased.                 *)
(***************************************************************************)
C3_EchoesNormalisedSubject ==
    ( /\ Served("results_lookup")
      /\ Strip(SuppliedPin) \in DOMAIN RESULTS_BY_PIN
      /\ Strip(SuppliedSubject) # ""
      /\ CanonicalKey(Lower(Strip(SuppliedSubject)))
            \notin DOMAIN RESULTS_BY_PIN[Strip(SuppliedPin)]["subjects"] )
    => ( /\ status = 404
         /\ body = [error |-> SubjectNotFoundMessage(Lower(Strip(SuppliedSubject)))] )

C3_Witness ==
    /\ Served("results_lookup")
    /\ SuppliedPin = "5678"
    /\ SuppliedSubject = "Biology "
    /\ status = 404

(***************************************************************************)
(* C4, as claimed, in the case of a PIN of the table.  The text of the     *)
(* PIN supplied occurs nowhere in the error payload of the response.       *)
(***************************************************************************)
C4_PinTextNotInError ==
    ( /\ Served("results_lookup")
      /\ status \in {400, 403, 404}
      /\ Strip(SuppliedPin) \in DOMAIN RESULTS_BY_PIN )
    => ~In(SuppliedPin, body["error"])

(***************************************************************************)
(* C4, amended.  An error payload is built without the PIN: it is one of   *)
(* the two fixed messages, or the fixed SubjectNotFound text around the    *)
(* normalised subject; the PIN text occurs in it only where it occurs in   *)
(* that fixed text or in the subject the caller supplied.                  *)
(***************************************************************************)
C4_ErrorBuiltWithoutPin ==
    (Served("results_lookup") /\ status \in {400, 403, 404}) =>
        LET subject == Lower(Strip(SuppliedSubject))
            fixed == IF status = 400 THEN MissingPinMessage
                     ELSE IF status = 403 THEN InvalidPinMessage
                     ELSE SubjectNotFoundMessage("")
        IN  /\ DOMAIN body = {"error"}
            /\ body["error"] \in {MissingPinMessage, InvalidPinMessage,
                                  SubjectNotFoundMessage(subject)}
            /\ In(SuppliedPin, body["error"])
                => (In(SuppliedPin, fixed) \/ In(SuppliedPin, subject))

C4_Witness ==
    /\ Served("results_lookup")
    /\ status = 404
    /\ Strip(SuppliedPin) = "1234"
    /\ In(SuppliedPin, body["error"])

(***************************************************************************)
(* C5.  For a valid PIN and a non-blank subject, the subject is trimmed,   *)
(* lowercased and mapped through the aliases; if the student has the       *)
(* resulting key the response is SingleSubject with that key and the       *)
(* score and grade stored under it.  PIN 1234 with math, MATH or Maths     *)
(* gives mathematics, 88, A.                                               *)
(***************************************************************************)
C5_SingleSubjectByAlias ==
    ( /\ Served("results_lookup")
      /\ Strip(SuppliedPin) \in DOMAIN InitialResults
      /\ Strip(SuppliedSubject) # "" )
    => LET record == InitialResults[Strip(SuppliedPin)]
           key == CanonicalKey(Lower(Strip(SuppliedSubject)))
       IN  /\ key \in DOMAIN record["subjects"]
                => /\ status = 200
                   /\ body = [student_name |-> record["student_name"],
                              class |-> record["class"],
                              session |-> record["session"],
                              term |-> record["term"],
                              subject |-> key,
                              score |-> record["subjects"][key]["score"],
                              grade |-> record["subjects"][key]["grade"]]
           /\ ( /\ Strip(SuppliedPin) = "1234"
                /\ Lower(Strip(SuppliedSubject)) \in {"math", "maths"} )
                => /\ status = 200
                   /\ body["subject"] = "mathematics"
                   /\ body["score"] = 88
                   /\ body["grade"] = "A"

C5_Witness ==
    /\ Served("results_lookup")
    /\ SuppliedPin = "1234"
    /\ SuppliedSubject = " Maths "
    /\ status = 200
    /\ body["subject"] = "mathematics"

(***************************************************************************)
(* C6.  For a valid PIN and a subject that is missing, empty or            *)
(* whitespace-only, the response is AllSubjects: name, class, session,     *)
(* term and the whole subject map of the record, and no SingleSubject or   *)
(* SubjectNotFound field.  For PIN 1234 the map is mathematics 88,         *)
(* english 82, science 79, social studies 85.                              *)
(***************************************************************************)
C6_AllSubjectsOnBlankSubject ==
    ( /\ Served("results_lookup")
      /\ Strip(SuppliedPin) \in DOMAIN InitialResults
      /\ Strip(SuppliedSubject) = "" )
    => LET record == InitialResults[Strip(SuppliedPin)]
       IN  /\ status = 200
           /\ DOMAIN body = {"student_name", "class", "session", "term", "subjects"}
           /\ body["student_name"] = record["student_name"]
           /\ body["class"] = record["class"]
           /\ body["session"] = record["session"]
           /\ body["term"] = record["term"]
           /\ body["subjects"] = record["subjects"]
           /\ Strip(SuppliedPin) = "1234"
                => /\ body["student_name"] = "Aisha Ibrahim"
                   /\ DOMAIN body["subjects"] =
                        {"mathematics", "english", "science", "social studies"}
                   /\ body["subjects"]["mathematics"]["score"] = 88
                   /\ body["subjects"]["english"]["score"] = 82
                   /\ body["subjects"]["science"]["score"] = 79
                   /\ body["subjects"]["social studies"]["score"] = 85

C6_Witness ==
    /\ Served("results_lookup")
    /\ SuppliedPin = "1234"
    /\ "subject" \in DOMAIN request
    /\ SuppliedSubject = " "
    /\ status = 200
    /\ "subjects" \in DOMAIN body

(***************************************************************************)
(* C7.  answer_question is first-match-wins over the order location,       *)
(* contact, about, admissions, EYFS, Key Stages 1 to 4, classes,           *)
(* extracurricular, principal, vice principal academic, vice principal     *)
(* special duties, art teacher, ICT/librarian, alumni, fees: the answer is *)
(* that of the earliest group with a keyword in the lowercased question.   *)
(* A question containing "address" or "location" in any letter case gets   *)
(* the address text.                                                       *)
(***************************************************************************)
C7_FirstMatchWins ==
    Served("answer_question") =>
        /\ Matching(request) # {}
            => body = RuleOrder[Earliest(Matching(request))].answer
        /\ (In("address", Lower(request)) \/ In("location", Lower(request)))
            => body = "New Ideal Model Schools (NIMS) is located at No. 12 Old "
                      \o "Pantisawa Road, Jalingo, Taraba State, Nigeria."

C7_Witness ==
    /\ Served("answer_question")
    /\ In("ADDRESS", request)
    /\ Cardinality(Matching(request)) >= 2
    /\ body = LocationAnswer

(***************************************************************************)
(* C8.  answer_question returns a non-empty string for every question,     *)
(* the empty and the blank one included, and returns the fallback text     *)
(* exactly when no keyword of any group is in the lowercased question.     *)
(***************************************************************************)
C8_TotalWithFallback ==
    Served("answer_question") =>
        /\ Len(body) > 0
        /\ body = FallbackAnswer <=> Matching(request) = {}
        /\ Strip(request) = "" => body = FallbackAnswer

C8_Witness ==
    /\ Served("answer_question")
    /\ request = ""
    /\ body = FallbackAnswer

(***************************************************************************)
(* C9.  Whatever calls were served before, in whatever order, the record   *)
(* table and the alias table are as they were at the start, and a call     *)
(* returns what the same call returned earlier in the run.                 *)
(***************************************************************************)
C9_TablesAndResultsUnchanged ==
    /\ RESULTS_BY_PIN = InitialResults
    /\ alias_map = AliasMapLiteral
    /\ ( /\ pc = "done"
         /\ memo # NoCall
         /\ memo.op = op
         /\ memo.request = request )
        => (memo.status = status /\ memo.body = body)

C9_Witness ==
    /\ Served("results_lookup")
    /\ memo # NoCall
    /\ memo.op = op
    /\ memo.request = request
    /\ memo.at < calls
    /\ SuppliedSubject = "math"
    /\ status = 200

(***************************************************************************)
(* C10, as claimed.  Every non-empty PIN that is not in the table gets the *)
(* InvalidPin error, 403, for every subject; SubjectNotFound (404) and the *)
(* 200 results occur only for a PIN that is in the table.                  *)
(***************************************************************************)
C10_NonEmptyAbsentPinInvalid ==
    Served("results_lookup") =>
        /\ (SuppliedPin # "" /\ SuppliedPin \notin DOMAIN RESULTS_BY_PIN)
            => (status = 403 /\ body = [error |-> InvalidPinMessage])
        /\ status \in {200, 404} => SuppliedPin \in DOMAIN RESULTS_BY_PIN

(***************************************************************************)
(* C10, amended.  The checks run on the trimmed PIN, in the order missing  *)
(* PIN (400), PIN not in the table (403), subject: a PIN that is blank     *)
(* once trimmed gets 400 and a non-blank one that is not in the table gets *)
(* the InvalidPin error, 403, each for every subject and with no field but *)
(* the error message; 404 and 200 occur only for a PIN whose trimmed text  *)
(* is in the table.                                                        *)
(***************************************************************************)
C10_ChecksInOrder ==
    Served("results_lookup") =>
        LET pin == Strip(SuppliedPin)
        IN  /\ status = 400 <=> pin = ""
            /\ status = 403 <=> (pin # "" /\ pin \notin DOMAIN RESULTS_BY_PIN)
            /\ status \in {200, 404} <=> pin \in DOMAIN RESULTS_BY_PIN
            /\ status = 404 => Strip(SuppliedSubject) # ""
            /\ status \in {400, 403} => DOMAIN body = {"error"}
            /\ status = 403 => body["error"] = InvalidPinMessage

C10_Witness ==
    /\ Served("results_lookup")
    /\ Strip(SuppliedPin) = "9999"
    /\ Lower(Strip(SuppliedSubject)) = "biology"
    /\ status = 403

====
